---- MODULE Spec2Model ----
(***************************************************************************)
(* Meeting-minutes pipeline: the job record in DynamoDB, the               *)
(* start-processing API handler, the Step Functions workflow               *)
(* (TranscribeVideo -> WaitForTranscription -> CheckTranscriptionStatus -> *)
(* IsTranscriptionComplete -> GenerateMinutes -> Success) and the three    *)
(* Lambda handlers it invokes.  Every await of a handler is one step, so   *)
(* that two executions for the same job interleave as they can on AWS.     *)
(***************************************************************************)
EXTENDS Integers, Sequences, FiniteSets, TLC

\* ---------------------------------------------------------------- bounds
\* start-processing requests for the one job; each may start one execution
Execs == {"e1", "e2"}
\* largest value of the millisecond clock (Date.now()) the model reaches
MaxNow == 1
\* number of 30-second waits after which the 2-hour ceiling counts as reached
MaxWaits == 2
\* retries of a task on a Lambda service exception (retryOnServiceExceptions)
MaxServiceRetries == 1
\* largest maxRetries a BedrockClientConfig of the model carries
MaxConfiguredRetries == 4
\* largest retryDelay (ms) a BedrockClientConfig of the model carries
MaxConfiguredDelay == 2
\* largest number of segments of a ParsedTranscript given to generateMinutes
MaxSegments == 2
\* largest number of tokens of a recognizer output
MaxItems == 3
\* largest number of speaker segments of a recognizer output
MaxSpeakerSegments == 2
\* latest second at which a speaker segment starts or ends
MaxTime == 2
\* largest number of calls of parseTranscript on one parser
MaxCalls == 2
\* largest number of calls of updateJob on the jobs table
MaxUpdates == 2

\* ------------------------------------------------------ program constants
WaitSeconds == 30
\* config.maxRetries || 3
DefaultMaxRetries == 3
\* config.retryDelay || 1000
DefaultRetryDelay == 1000

\* the workflow timeout (cdk.Duration.hours(2)), scaled to the waits of the model
CeilingSeconds == MaxWaits * WaitSeconds

\* an absent (undefined) optional value; present values are non-empty tuples
NoValue == <<>>

\* ----------------------------------------------------------- error texts
\* A message is a sequence of parts; template literals concatenate parts.
UpdateJobError == <<"Failed to update job: ", "DynamoDBError">>
TranscribeApiError == <<"TranscribeApiError">>
JobNotFoundError == <<"TranscribeJobNotFound">>
UriNotFoundError == <<"TranscriptUriNotFound">>
TtPrefix == <<"TranscribeStartFailed: ">>
CsPrefix == <<"TranscribeStatusCheckFailed: ">>
CsFailedPrefix == <<"TranscribeJobFailed: ">>
MgPrefix == <<"MinutesGenerationError: ">>
UnknownReason == <<"UnknownError">>
ProviderReason == <<"ProviderFailureReason">>
S3FetchError == <<"S3FetchError">>
TranscriptParseError == <<"TranscriptParseError">>
BedrockError == <<"BedrockError">>
S3PutError == <<"S3PutError">>

\* ------------------------------------------------------------- job record
JobStatus == {"UPLOADED", "TRANSCRIBING", "GENERATING", "COMPLETED", "FAILED"}

\* generateTranscribeJobName: meeting-minutes-${jobId}-${Date.now()}
GenerateTranscribeJobName(t) == <<"meeting-minutes-", "jobId", "-", t>>

Names == {GenerateTranscribeJobName(t) : t \in 0..MaxNow}

TranscriptKey == <<"userId", "/", "jobId", "/transcript.json">>
MinutesKey == <<"userId", "/", "jobId", "/minutes.md">>
ParsedDuration == <<"duration">>

\* the two buckets of the deployment: INPUT_BUCKET_NAME holds the uploaded
\* videos, OUTPUT_BUCKET_NAME the results
INPUT_BUCKET_NAME == <<"inputBucket">>
OUTPUT_BUCKET_NAME == <<"outputBucket">>

\* OutputBucketName and OutputKey of the StartTranscriptionJobCommand: where
\* the provider writes the transcript
OutputLocation == [bucket |-> OUTPUT_BUCKET_NAME, key |-> TranscriptKey]

\* fetchTranscriptFromS3(INPUT_BUCKET, transcriptS3Key) of the
\* minutes-generator: where it reads the transcript
FetchLocation(transcriptS3Key) == [bucket |-> INPUT_BUCKET_NAME, key |-> transcriptS3Key]

\* createJob: the record as the upload handler leaves it
NewJob ==
  [status |-> "UPLOADED", updatedAt |-> 0, videoDuration |-> NoValue,
   transcribeJobName |-> NoValue, transcriptS3Key |-> NoValue,
   minutesS3Key |-> NoValue, errorMessage |-> NoValue]

\* updateJob has no branch for errorMessage
Defined_NoErrorMessage(input, f) ==
  f \in DOMAIN input /\ f # "errorMessage" /\ (f = "status" \/ input[f] # NoValue)

\* input.<field> !== undefined (every caller passes a status)
Defined(input, f) == f \in DOMAIN input /\ (f = "status" \/ input[f] # NoValue)

\* the item is replaced: the fields the input does not define are reset
UpdateJob_Replace(j, input, t) ==
  [f \in DOMAIN j |->
     IF f = "updatedAt" THEN t
     ELSE IF Defined(input, f) THEN input[f]
     ELSE NewJob[f]]

\* updateJob: SET updatedAt and every field the input defines, nothing else
UpdateJob(j, input, t) ==
  [f \in DOMAIN j |->
     IF f = "updatedAt" THEN t
     ELSE IF Defined(input, f) THEN input[f]
     ELSE j[f]]

\* updateJobStatus passes the status on and drops the errorMessage
UpdateJobStatus_NoMessage(j, status, errorMessage, t) ==
  UpdateJob(j, [status |-> status], t)

\* updateJobStatus(jobId, userId, status, errorMessage?)
UpdateJobStatus(j, status, errorMessage, t) ==
  UpdateJob(j, [status |-> status, errorMessage |-> errorMessage], t)

\* ------------------------------------------------------------ BedrockClient
\* an optional number of a config: absent (NoValue) or <<n>>
OptionalNumbers(max) == {NoValue} \cup {<<n>> : n \in 0..max}

\* BedrockClientConfig { maxRetries?: number; retryDelay?: number }
BedrockClientConfig ==
  [maxRetries : OptionalNumbers(MaxConfiguredRetries),
   retryDelay : OptionalNumbers(MaxConfiguredDelay)]

\* v || d: an absent value and 0 are falsy and select the default
OrDefault(v, d) == IF v = NoValue THEN d ELSE IF v[1] = 0 THEN d ELSE v[1]

\* constructor(config = {}): the fields of the new client
BedrockClient(c) ==
  [maxRetries |-> OrDefault(c.maxRetries, DefaultMaxRetries),
   retryDelay |-> OrDefault(c.retryDelay, DefaultRetryDelay)]

\* the backoff does not grow
Delay_Constant(retryDelay, n) == retryDelay

\* const delay = this.retryDelay * Math.pow(2, attempt - 1)
Delay(retryDelay, n) == retryDelay * 2 ^ (n - 1)

\* messages of the errors invokeModel throws
BedrockCallError == <<"BedrockInvokeError: ", "SdkError">>
EmptyBodyError == <<"BedrockEmptyBody">>
InvokeErrors == {BedrockCallError, EmptyBodyError}

\* ---- the text of a model response, as a sequence of tokens
\* an array field of the response JSON: missing, or present with its elements
Missing == [present |-> FALSE, items |-> <<>>]
Arr(items) == [present |-> TRUE, items |-> items]

\* an element of decisions / nextActions; description may be missing
Item(description) == [id |-> NoValue, description |-> description, timestamp |-> NoValue]

\* an element to which the model added an id field of its own
ItemWithId(id, description) == [Item(description) EXCEPT !.id = id]

\* a JSON object with the fields of LLMMinutesResponse
Json(summary, decisions, nextActions) ==
  [summary |-> summary, decisions |-> decisions, nextActions |-> nextActions]

\* tokens: the three-backtick fence with and without the json tag,
\* whitespace, text that is no JSON, and the text of a JSON object
Tok(t) == [t |-> t, v |-> Json(NoValue, Missing, Missing)]
FenceJson == Tok("fence_json")
Fence == Tok("fence")
Ws == Tok("ws")
Prose == Tok("text")
Value(j) == [t |-> "value", v |-> j]

\* the JSON objects a response of the model can hold
GoodJson == Json(<<"summary">>, Arr(<<Item(<<"d1">>)>>), Arr(<<Item(<<"a1">>)>>))
NoSummaryJson == Json(NoValue, Arr(<<>>), Arr(<<>>))
NoDecisionsJson == Json(<<"summary">>, Missing, Arr(<<>>))
NoNextActionsJson == Json(<<"summary">>, Arr(<<>>), Missing)
NoDescriptionJson == Json(<<"summary">>, Arr(<<Item(NoValue)>>), Arr(<<>>))
\* a summary that quotes a fence, as a text about markdown does
FenceInSummary == <<"summary ", "fence", " summary">>
FenceInSummaryJson == Json(FenceInSummary, Arr(<<Item(<<"d1">>)>>), Arr(<<>>))

\* the model numbered its elements itself: the same id twice, and an empty id
OwnIdsJson ==
  Json(<<"summary">>,
       Arr(<<ItemWithId(<<"1">>, <<"d1">>), ItemWithId(<<"1">>, <<"d2">>)>>),
       Arr(<<ItemWithId(<<"">>, <<"a1">>)>>))
Jsons ==
  {GoodJson, NoSummaryJson, NoDecisionsJson, NoNextActionsJson, NoDescriptionJson,
   FenceInSummaryJson, OwnIdsJson}

\* the text of a JSON object whose summary holds a fence: the text up to
\* the fence, the fence, and the rest
Open(j) == [t |-> "open", v |-> j]
Close(j) == [t |-> "close", v |-> j]

\* JSON.stringify: the text of a JSON object, as tokens
TextOf(j) ==
  IF j.summary = FenceInSummary THEN <<Open(j), Fence, Close(j)>> ELSE <<Value(j)>>

\* a response that holds the payload with no fence at all
Bare(j) == TextOf(j)

\* a response that wraps the payload in a json fence
JsonFenced(j) == <<FenceJson, Ws>> \o TextOf(j) \o <<Ws, Fence>>

\* a response that wraps the payload in a fence without a tag
PlainFenced(j) == <<Fence, Ws>> \o TextOf(j) \o <<Ws, Fence>>

\* the texts invokeModel can return: a JSON object bare, in a json fence, in
\* a plain fence, in a json fence after some prose, and prose only
Texts ==
  {<<Prose>>, <<FenceJson, Ws, Prose, Ws, Fence>>}
    \cup {Bare(j) : j \in Jsons}
    \cup {JsonFenced(j) : j \in Jsons}
    \cup {PlainFenced(j) : j \in Jsons}
    \cup {<<Prose, Ws>> \o JsonFenced(j) \o <<Ws>> : j \in Jsons}

\* String.prototype.trim, and what \s* leaves of a capture
RECURSIVE TrimLeft(_)
TrimLeft(text) ==
  IF text # <<>> /\ Head(text).t = "ws" THEN TrimLeft(Tail(text)) ELSE text

RECURSIVE TrimRight(_)
TrimRight(text) ==
  IF text # <<>> /\ text[Len(text)].t = "ws"
    THEN TrimRight(SubSeq(text, 1, Len(text) - 1)) ELSE text

Trim(text) == TrimLeft(TrimRight(text))

\* index of the first token at or after position from whose kind is in
\* kinds; 0 when there is none
FirstAt(text, from, kinds) ==
  LET hits == {i \in from..Len(text) : text[i].t \in kinds}
  IN IF hits = {} THEN 0 ELSE CHOOSE i \in hits : \A k \in hits : i <= k

\* text.match(/<fence>\s*([\s\S]*?)\s*<fence>/): the capture, for the opening
\* fences in openers; <<>> with matched FALSE when there is no match
FenceMatch(text, openers) ==
  LET i == FirstAt(text, 1, openers)
      j == IF i = 0 THEN 0 ELSE FirstAt(text, i + 1, {"fence", "fence_json"})
  IN IF j = 0 THEN [matched |-> FALSE, capture |-> <<>>]
     ELSE [matched |-> TRUE,
           capture |-> Trim((IF text[i].t = "fence_json" /\ "fence_json" \notin openers
                               THEN <<Prose>> ELSE <<>>)
                            \o SubSeq(text, i + 1, j - 1))]

\* the jsonText of parseResponse: trim, then the capture of the json fence,
\* else the capture of a plain fence, else the trimmed text
JsonText(llmResponse) ==
  LET jsonMatch == FenceMatch(Trim(llmResponse), {"fence_json"})
      codeBlockMatch == FenceMatch(Trim(llmResponse), {"fence", "fence_json"})
  IN IF jsonMatch.matched THEN jsonMatch.capture
     ELSE IF codeBlockMatch.matched THEN codeBlockMatch.capture
     ELSE Trim(llmResponse)

\* JSON.parse accepts the text of one JSON value with whitespace around it
IsJson(text) ==
  LET t == Trim(text)
  IN \/ Len(t) = 1 /\ t[1].t = "value"
     \/ /\ Len(t) = 3
        /\ t[1].t = "open" /\ t[2].t = "fence" /\ t[3].t = "close"
        /\ t[1].v = t[3].v

\* the speaker labels of the recognizer
SpeakerIds == {"spk_0", "spk_1"}

\* the ParsedTranscript whose segments carry these speaker ids, in order
Transcript(speakerIds) ==
  [fullText |-> <<"transcript">>,
   segments |-> [i \in 1..Len(speakerIds) |-> [speakerId |-> speakerIds[i]]]]

ParsedTranscripts ==
  {Transcript(ids) : ids \in UNION {[1..n -> SpeakerIds] : n \in 0..MaxSegments}}

\* what generateMinutes returns or throws
NoMinutes ==
  [summary |-> NoValue, decisions |-> <<>>, nextActions |-> <<>>,
   transcript |-> NoValue, speakers |-> <<>>]
NoResult == [kind |-> "none", attempts |-> 0, cause |-> NoValue, minutes |-> NoMinutes]

\* throw new InternalServerError(<parse failed>: ${message})
ResponseParseError(message) ==
  [NoResult EXCEPT !.kind = "InternalServerError",
                   !.cause = <<"ResponseParseFailed: ">> \o message]

\* throw new ServiceUnavailableError(<maxRetries> + <lastError?.message>)
ServiceUnavailableError(maxRetries, last) ==
  [NoResult EXCEPT !.kind = "ServiceUnavailableError",
                   !.attempts = maxRetries,
                   !.cause = IF last = NoValue THEN <<"undefined">> ELSE last]

\* uuidv4(): the k-th identifier drawn by this process; two draws never agree
Uuidv4(k) == <<"uuid", k>>

ToMinutes_KeepModelIds(j, parsedTranscript) ==
  LET n == Len(j.decisions.items)
      IdOf(item, k) == IF item.id = NoValue THEN Uuidv4(k) ELSE item.id
  IN [summary |-> IF j.summary = NoValue THEN <<"">> ELSE j.summary,
      decisions |-> [i \in 1..n |->
                       [id |-> IdOf(j.decisions.items[i], i),
                        description |-> j.decisions.items[i].description]],
      nextActions |-> [i \in 1..Len(j.nextActions.items) |->
                         [id |-> IdOf(j.nextActions.items[i], n + i),
                          description |-> j.nextActions.items[i].description]],
      transcript |-> parsedTranscript.fullText,
      speakers |-> [i \in 1..Len(parsedTranscript.segments) |->
                      [id |-> parsedTranscript.segments[i].speakerId,
                       segments |-> 1]]]

\* the Minutes built from the parsed object: summary || '', a fresh id for
\* each element, description copied as it is, the transcript text, and one
\* speakers entry per segment
ToMinutes(j, parsedTranscript) ==
  LET n == Len(j.decisions.items)
  IN [summary |-> IF j.summary = NoValue THEN <<"">> ELSE j.summary,
      decisions |-> [i \in 1..n |->
                       [id |-> Uuidv4(i),
                        description |-> j.decisions.items[i].description]],
      nextActions |-> [i \in 1..Len(j.nextActions.items) |->
                         [id |-> Uuidv4(n + i),
                          description |-> j.nextActions.items[i].description]],
      transcript |-> parsedTranscript.fullText,
      speakers |-> [i \in 1..Len(parsedTranscript.segments) |->
                      [id |-> parsedTranscript.segments[i].speakerId,
                       segments |-> 1]]]

\* parseResponse: a SyntaxError of JSON.parse and the TypeError of .map on a
\* missing array are caught and rethrown as the parse error
ParseResponse(llmResponse, parsedTranscript) ==
  LET jsonText == JsonText(llmResponse)
      j == Trim(jsonText)[1].v
  IN IF ~IsJson(jsonText) THEN ResponseParseError(<<"SyntaxError">>)
     ELSE IF ~j.decisions.present \/ ~j.nextActions.present
            THEN ResponseParseError(<<"TypeError">>)
     ELSE [NoResult EXCEPT !.kind = "Minutes", !.minutes = ToMinutes(j, parsedTranscript)]

\* -------------------------------------------------------- TranscriptParser
\* Numbers of the recognizer output are strings with one decimal, "2.0";
\* the numbers of the parser are counted in tenths.
NumStr(int, frac) == <<int, ".", frac>>

\* parseFloat of such a string
ParseFloat(s) == 10 * s[1] + s[3]

\* s || '0'
OrZero(s) == IF s = NoValue THEN NumStr(0, 0) ELSE s

\* the k-th word of the audio: spoken in the second half of second k
Pronunciation(k) ==
  [type |-> "pronunciation",
   start_time |-> NumStr(k - 1, 5),
   end_time |-> NumStr(k, 0),
   alternatives |-> <<[confidence |-> IF k % 2 = 1 THEN NumStr(0, 5) ELSE NumStr(1, 0),
                       content |-> ToString(k)]>>]

\* a punctuation token: it carries no times
Punctuation ==
  [type |-> "punctuation",
   start_time |-> NoValue,
   end_time |-> NoValue,
   alternatives |-> <<[confidence |-> NumStr(0, 0), content |-> "."]>>]

ItemTypes == {"pronunciation", "punctuation"}

\* the token stream with these item types, the words numbered in order
TranscribeItems(types) ==
  [i \in 1..Len(types) |->
     IF types[i] = "pronunciation"
       THEN Pronunciation(Cardinality({k \in 1..i : types[k] = "pronunciation"}))
       ELSE Punctuation]

ItemStreams ==
  {TranscribeItems(types) : types \in UNION {[1..n -> ItemTypes] : n \in 0..MaxItems}}

\* String.prototype.trim on a text held as a sequence of words, punctuation
\* and " "
RECURSIVE TrimText(_)
TrimText(text) ==
  IF text # <<>> /\ Head(text) = " " THEN TrimText(Tail(text))
  ELSE IF text # <<>> /\ text[Len(text)] = " "
    THEN TrimText(SubSeq(text, 1, Len(text) - 1))
  ELSE text

\* the transcript the recognizer writes for a token stream: the contents in
\* order, in a language written with spaces (spaced) or without
RECURSIVE TranscriptText(_, _)
TranscriptText(items, spaced) ==
  IF items = <<>> THEN <<>>
  ELSE LET before == TranscriptText(SubSeq(items, 1, Len(items) - 1), spaced)
           item == items[Len(items)]
       IN IF spaced /\ item.type = "pronunciation" /\ before # <<>>
            THEN before \o <<" ", item.alternatives[1].content>>
            ELSE before \o <<item.alternatives[1].content>>

\* an entry of speaker_labels.segments
SpeakerSegment(start, end, label) ==
  [start_time |-> NumStr(start, 0), end_time |-> NumStr(end, 0), speaker_label |-> label]

\* the lists of speaker segments of a recognizer output: each segment ends
\* no earlier than it starts, and no segment starts before the one in front
\* of it has ended
SpeakerSegmentLists ==
  LET One == {SpeakerSegment(s, e, l) :
                s \in 0..MaxTime, e \in 0..MaxTime, l \in SpeakerIds}
      Timed == {seg \in One : ParseFloat(seg.start_time) <= ParseFloat(seg.end_time)}
      Lists == UNION {[1..n -> Timed] : n \in 0..MaxSpeakerSegments}
  IN {l \in Lists :
        \A i \in 1..(Len(l) - 1) :
          ParseFloat(l[i].end_time) <= ParseFloat(l[i + 1].start_time)}

\* speaker_labels of a recognizer output: absent, or the speaker segments
SpeakerLabels == {NoValue} \cup {<<[segments |-> l]>> : l \in SpeakerSegmentLists}

\* transcripts of a recognizer output with these items: empty, or the one
\* transcript of the token stream
TranscriptsOf(items) ==
  {<<>>} \cup {<<[transcript |-> TranscriptText(items, spaced)]>> : spaced \in BOOLEAN}

\* the results of a TranscribeOutput
TranscribeOutput(transcripts, items, labels) ==
  [transcripts |-> transcripts, items |-> items, speaker_labels |-> labels]

\* what parseTranscript returns or throws
NoParsed ==
  [kind |-> "none", error |-> NoValue, fullText |-> NoValue, duration |-> 0,
   speakerCount |-> 0, segments |-> <<>>]

\* throw new ValidationError(<the Transcript result is empty>)
EmptyTranscriptError ==
  [NoParsed EXCEPT !.kind = "ValidationError", !.error = <<"Transcript result is empty">>]

\* the items of the given type
ItemsOfType(items, type) == SelectSeq(items, LAMBDA item : item.type = type)

\* sum / items.length, and 0 for no items: the quotient is kept as the pair
\* of its sum (in tenths) and its count
CalculateAverageConfidence(items) ==
  IF Len(items) = 0 THEN [sum |-> 0, count |-> 1]
  ELSE LET Conf(i) == ParseFloat(OrZero(items[i].alternatives[1].confidence))
           RECURSIVE Sum(_)
           Sum(n) == IF n = 0 THEN 0 ELSE Sum(n - 1) + Conf(n)
       IN [sum |-> Sum(Len(items)), count |-> Len(items)]

\* buildTextFromItems: the text after the first n items of allItems
RECURSIVE BuildTextUpTo(_, _, _, _)
BuildTextUpTo(allItems, startTime, endTime, n) ==
  IF n = 0 THEN <<>>
  ELSE LET text == BuildTextUpTo(allItems, startTime, endTime, n - 1)
           item == allItems[n]
           itemTime == ParseFloat(OrZero(item.start_time))
       IN IF item.type = "pronunciation"
            THEN IF itemTime >= startTime /\ itemTime <= endTime
                   THEN text \o <<item.alternatives[1].content, " ">>
                   ELSE text
          ELSE IF item.type = "punctuation"
            THEN TrimText(text) \o <<item.alternatives[1].content, " ">>
          ELSE text

BuildTextFromItems(pronunciationItems, allItems) ==
  LET n == Len(pronunciationItems)
      startTime == IF n > 0 THEN ParseFloat(OrZero(pronunciationItems[1].start_time)) ELSE 0
      endTime == IF n > 0 THEN ParseFloat(OrZero(pronunciationItems[n].end_time)) ELSE 0
  IN BuildTextUpTo(allItems, startTime, endTime, Len(allItems))

\* the list of an earlier call is used again
NewSegments_Kept(previous) == previous

\* const segments = [] of extractSegments: a new list for each call
NewSegments(previous) == <<>>

\* the text of the segment is built from the items
WholeSegment_Rebuilt(results, items) ==
  [speakerId |-> "spk_0",
   startTime |-> ParseFloat(OrZero(items[1].start_time)),
   endTime |-> ParseFloat(OrZero(items[Len(items)].end_time)),
   text |-> TrimText(BuildTextFromItems(items, results.items)),
   confidence |-> CalculateAverageConfidence(items)]

\* the one segment made of the whole transcript when the output holds no
\* speaker labels; items are the pronunciation items, at least one
WholeSegment(results, items) ==
  [speakerId |-> "spk_0",
   startTime |-> ParseFloat(OrZero(items[1].start_time)),
   endTime |-> ParseFloat(OrZero(items[Len(items)].end_time)),
   text |-> results.transcripts[1].transcript,
   confidence |-> CalculateAverageConfidence(items)]

\* the segment pushed for one entry of speaker_labels.segments
LabelledSegment(results, segment) ==
  LET startTime == ParseFloat(segment.start_time)
      endTime == ParseFloat(segment.end_time)
      segmentItems ==
        SelectSeq(results.items,
                  LAMBDA item :
                    /\ item.type = "pronunciation"
                    /\ item.start_time # NoValue
                    /\ ParseFloat(OrZero(item.start_time)) >= startTime
                    /\ ParseFloat(OrZero(item.start_time)) <= endTime)
  IN [speakerId |-> segment.speaker_label,
      startTime |-> startTime,
      endTime |-> endTime,
      text |-> TrimText(BuildTextFromItems(segmentItems, results.items)),
      confidence |-> CalculateAverageConfidence(segmentItems)]

\* aggregateSpeakers: the values of the Map after the first n segments, in
\* the order in which the speakers were first seen
RECURSIVE AggregateUpTo(_, _)
AggregateUpTo(segments, n) ==
  IF n = 0 THEN <<>>
  ELSE LET speakers == AggregateUpTo(segments, n - 1)
           segment == segments[n]
           existing == {i \in 1..Len(speakers) : speakers[i].id = segment.speakerId}
       IN IF existing # {}
            THEN [i \in 1..Len(speakers) |->
                    IF i \in existing
                      THEN [speakers[i] EXCEPT
                              !.segmentCount = @ + 1,
                              !.totalDuration = @ + (segment.endTime - segment.startTime)]
                      ELSE speakers[i]]
            ELSE Append(speakers,
                        [id |-> segment.speakerId,
                         segmentCount |-> 1,
                         totalDuration |-> segment.endTime - segment.startTime])

\* no grouping: one speaker for each segment
AggregateSpeakers_PerSegment(segments) ==
  [i \in 1..Len(segments) |->
     [id |-> segments[i].speakerId,
      segmentCount |-> 1,
      totalDuration |-> segments[i].endTime - segments[i].startTime]]

\* the speakers of all the segments
AggregateSpeakers(segments) == AggregateUpTo(segments, Len(segments))

\* calculateDuration: the end of the last pronunciation item that has one
CalculateDuration(items) ==
  LET pronunciationItems ==
        SelectSeq(items, LAMBDA item : item.type = "pronunciation" /\ item.end_time # NoValue)
  IN IF Len(pronunciationItems) = 0 THEN 0
     ELSE ParseFloat(OrZero(pronunciationItems[Len(pronunciationItems)].end_time))

\* the ParsedTranscript that parseTranscript returns for these segments
Parsed(results, segments) ==
  [NoParsed EXCEPT !.kind = "ParsedTranscript",
                   !.fullText = results.transcripts[1].transcript,
                   !.duration = CalculateDuration(results.items),
                   !.speakerCount = Len(AggregateSpeakers(segments)),
                   !.segments = segments]

\* ------------------------------------------------- MeetingJobRepository
\* the keys (jobId, userId) of the jobs table
JobKeys == {<<"job1", "user1">>, <<"job2", "user1">>}

\* the UpdateMeetingJobInput values of the callers, and one that gives no
\* status
UpdateInputs ==
  <<[status |-> "TRANSCRIBING", transcribeJobName |-> GenerateTranscribeJobName(0)],
    [status |-> "GENERATING", transcriptS3Key |-> TranscriptKey],
    [status |-> "GENERATING", errorMessage |-> NoValue],
    [status |-> "COMPLETED", minutesS3Key |-> MinutesKey, videoDuration |-> ParsedDuration],
    [status |-> "FAILED", errorMessage |-> UpdateJobError],
    [transcriptS3Key |-> TranscriptKey]>>

\* no call of updateJob yet
NoCall == [no |-> 0, key |-> NoValue, input |-> 0, failed |-> FALSE]

VARIABLES
  job,        \* the DynamoDB record of the job
  provider,   \* Amazon Transcribe: job name -> state of that transcription job
  now,        \* Date.now()
  pc,         \* per execution: workflow state or position inside a handler
  timedOut,   \* per execution: the 2-hour timeout has aborted it
  name,       \* per execution: transcribeJobName generated by the trigger
  elapsed,    \* per execution: seconds spent in WaitForTranscription
  retries,    \* per execution: service-exception retries of the current task
  caught,     \* per execution: message of the error caught / failure reason
  err,        \* per execution: message of the error the last handler threw
  writeFailures, \* per execution: number of its updateJob calls that failed
  config,     \* BedrockClient: the BedrockClientConfig given to the constructor
  client,     \* BedrockClient: the fields maxRetries and retryDelay
  bpc,        \* BedrockClient: position inside generateMinutes
  attempt,    \* invokeModelWithRetry: the loop variable
  calls,      \* number of InvokeModelCommand sent to the Bedrock runtime
  waits,      \* the delays passed to sleep, in order
  lastError,  \* invokeModelWithRetry: message of the last caught error
  response,   \* the text returned by invokeModel
  parsed,     \* generateMinutes: the ParsedTranscript argument
  result,     \* what generateMinutes returned or threw
  results,    \* TranscriptParser: the results of the TranscribeOutput argument
  tpc,        \* TranscriptParser: position inside parseTranscript
  segments,   \* extractSegments: the list of segments built so far
  index,      \* extractSegments: number of speaker segments already visited
  returned,   \* what parseTranscript returned or threw
  callNo,     \* number of the current call of parseTranscript
  previous,   \* what the call before the current one returned or threw
  table,      \* MeetingJobRepository: the items of the jobs table, by key
  call        \* MeetingJobRepository: the last call of updateJob

orchVars == <<job, provider, now, pc, timedOut, name, elapsed, retries, caught, err, writeFailures>>

bcVars == <<config, client, bpc, attempt, calls, waits, lastError, response, parsed, result>>

tpVars == <<results, tpc, segments, index, returned, callNo, previous>>

vars == <<orchVars, bcVars, tpVars, table, call>>

TaskStates == {"TranscribeVideo", "CheckTranscriptionStatus", "GenerateMinutes"}
EndStates == {"Success", "TranscriptionFailed", "MinutesGenerationFailed"}
TtPCs == {"tt_update", "tt_send", "tt_catch"}
CsPCs == {"cs_get", "cs_update_gen", "cs_update_failed", "cs_catch"}
MgPCs == {"mg_update_gen", "mg_fetch", "mg_generate", "mg_put", "mg_update_done", "mg_catch"}
LambdaPCs == TtPCs \cup CsPCs \cup MgPCs


OrchInit ==
  /\ job = NewJob
  /\ provider = [n \in Names |-> "NONE"]
  /\ now = 0
  /\ pc = [e \in Execs |-> "idle"]
  /\ timedOut = [e \in Execs |-> FALSE]
  /\ name = [e \in Execs |-> NoValue]
  /\ elapsed = [e \in Execs |-> 0]
  /\ retries = [e \in Execs |-> 0]
  /\ caught = [e \in Execs |-> NoValue]
  /\ err = [e \in Execs |-> NoValue]
  /\ writeFailures = [e \in Execs |-> 0]

\* bedrockClient = new BedrockClient(): the client of the minutes-generator
\* before generateMinutes is called
BcIdle ==
  /\ config = [maxRetries |-> NoValue, retryDelay |-> NoValue]
  /\ client = BedrockClient(config)
  /\ bpc = "idle"
  /\ attempt = 0
  /\ calls = 0
  /\ waits = <<>>
  /\ lastError = NoValue
  /\ response = NoValue
  /\ parsed = Transcript(<<>>)
  /\ result = NoResult

\* transcriptParser = new TranscriptParser(s3Client): parseTranscript has not
\* been called
TpIdle ==
  /\ results = TranscribeOutput(<<>>, <<>>, NoValue)
  /\ tpc = "idle"
  /\ segments = <<>>
  /\ index = 0
  /\ returned = NoParsed
  /\ callNo = 0
  /\ previous = NoParsed

\* the jobs table before updateJob is called on it
RepoIdle ==
  /\ table = [k \in JobKeys |-> NewJob]
  /\ call = NoCall

Init == OrchInit /\ BcIdle /\ TpIdle /\ RepoIdle

\* The state the workflow enters when a handler returns or throws: an
\* execution the timeout has aborted takes no further transition.
Enter(e, s) == IF timedOut[e] THEN "Abandoned" ELSE s

\* ------------------------------------------------- start-processing handler
\* getJob, then the status check of the handler
SpGetJob(e) ==
  /\ pc[e] = "idle"
  /\ \/ /\ job.status = "UPLOADED"
        /\ pc' = [pc EXCEPT ![e] = "sp_start"]
     \/ /\ job.status # "UPLOADED"
        /\ pc' = [pc EXCEPT ![e] = "Rejected"]
     \/ pc' = [pc EXCEPT ![e] = "StartFailed"]
  /\ UNCHANGED <<job, provider, now, timedOut, name, elapsed, retries, caught, err, writeFailures>>
  /\ UNCHANGED <<bcVars, tpVars, table, call>>

\* sfnClient.send(StartExecutionCommand)
SpStartExecution(e) ==
  /\ pc[e] = "sp_start"
  /\ \/ pc' = [pc EXCEPT ![e] = "TranscribeVideo"]
     \/ pc' = [pc EXCEPT ![e] = "StartFailed"]
  /\ UNCHANGED <<job, provider, now, timedOut, name, elapsed, retries, caught, err, writeFailures>>
  /\ UNCHANGED <<bcVars, tpVars, table, call>>

\* ------------------------------------------------------------ the workflow
\* the Choice sends an unfinished poll straight back to the poll
IsTranscriptionComplete_NoWait(o) ==
  IF o.status = "FAILED" THEN "TranscriptionFailed"
  ELSE IF o.isComplete = TRUE THEN "GenerateMinutes"
  ELSE "CheckTranscriptionStatus"

\* IsTranscriptionComplete (Choice): the state that follows the poll output
IsTranscriptionComplete(o) ==
  IF o.status = "FAILED" THEN "TranscriptionFailed"
  ELSE IF o.isComplete = TRUE THEN "GenerateMinutes"
  ELSE "WaitForTranscription"

\* the Catch of the poll sends its error back into the polling loop
CatchTarget_PollAgain(s) ==
  IF s = "GenerateMinutes" THEN "MinutesGenerationFailed"
  ELSE IF s = "CheckTranscriptionStatus" THEN "WaitForTranscription"
  ELSE "TranscriptionFailed"

\* addCatch(States.ALL): the Fail state a task's error leads to
CatchTarget(s) ==
  IF s = "GenerateMinutes" THEN "MinutesGenerationFailed" ELSE "TranscriptionFailed"

\* WaitForTranscription: 30 seconds, then CheckTranscriptionStatus
WaitForTranscription(e) ==
  /\ pc[e] = "WaitForTranscription"
  /\ elapsed[e] < CeilingSeconds
  /\ pc' = [pc EXCEPT ![e] = "CheckTranscriptionStatus"]
  /\ elapsed' = [elapsed EXCEPT ![e] = @ + WaitSeconds]
  /\ UNCHANGED <<job, provider, now, timedOut, name, retries, caught, err, writeFailures>>
  /\ UNCHANGED <<bcVars, tpVars, table, call>>

\* retryOnServiceExceptions: the invocation did not reach the handler; the
\* task is retried, and after the last retry its error goes to the Catch
ServiceException(e) ==
  /\ pc[e] \in TaskStates
  /\ IF retries[e] < MaxServiceRetries
       THEN /\ retries' = [retries EXCEPT ![e] = @ + 1]
            /\ UNCHANGED <<pc, err>>
       ELSE /\ pc' = [pc EXCEPT ![e] = CatchTarget(pc[e])]
            /\ err' = [err EXCEPT ![e] = <<"Lambda.ServiceException">>]
            /\ UNCHANGED retries
  /\ UNCHANGED <<job, provider, now, timedOut, name, elapsed, caught, writeFailures>>
  /\ UNCHANGED <<bcVars, tpVars, table, call>>

\* timeout: cdk.Duration.hours(2).  The execution is aborted where it is; a
\* handler that is running is not cancelled and runs to its end.
Timeout(e) ==
  /\ ~timedOut[e]
  /\ pc[e] \in TaskStates \cup {"WaitForTranscription"} \cup LambdaPCs
  /\ elapsed[e] >= CeilingSeconds
  /\ timedOut' = [timedOut EXCEPT ![e] = TRUE]
  /\ pc' = [pc EXCEPT ![e] = IF pc[e] \in LambdaPCs THEN pc[e] ELSE "TimedOut"]
  /\ UNCHANGED <<job, provider, now, name, elapsed, retries, caught, err, writeFailures>>
  /\ UNCHANGED <<bcVars, tpVars, table, call>>

\* ------------------------------------------------ transcribe-trigger handler
\* the TRANSCRIBING write leaves out the job name
TtUpdateInput_NoName(n) == [status |-> "TRANSCRIBING"]

\* the input of the TRANSCRIBING write
TtUpdateInput(n) == [status |-> "TRANSCRIBING", transcribeJobName |-> n]

\* the catch block forgets the errorMessage
TtFailedInput_NoMessage(msg) == [status |-> "FAILED"]

TtFailedInput(msg) == [status |-> "FAILED", errorMessage |-> TtPrefix \o msg]

\* TranscribeVideo invokes the handler; the input passes validation and
\* startTranscriptionJob generates the job name
InvokeTranscribeVideo(e) ==
  /\ pc[e] = "TranscribeVideo"
  /\ pc' = [pc EXCEPT ![e] = "tt_update"]
  /\ name' = [name EXCEPT ![e] = GenerateTranscribeJobName(now)]
  /\ retries' = [retries EXCEPT ![e] = 0]
  /\ UNCHANGED <<job, provider, now, timedOut, elapsed, caught, err, writeFailures>>
  /\ UNCHANGED <<bcVars, tpVars, table, call>>

\* await jobRepository.updateJob({status: 'TRANSCRIBING', transcribeJobName})
TtUpdate(e) ==
  /\ pc[e] = "tt_update"
  /\ \/ /\ job' = UpdateJob(job, TtUpdateInput(name[e]), now)
        /\ pc' = [pc EXCEPT ![e] = "tt_send"]
        /\ UNCHANGED <<caught, writeFailures>>
     \/ /\ caught' = [caught EXCEPT ![e] = UpdateJobError]
        /\ writeFailures' = [writeFailures EXCEPT ![e] = @ + 1]
        /\ pc' = [pc EXCEPT ![e] = "tt_catch"]
        /\ UNCHANGED job
  /\ UNCHANGED <<provider, now, timedOut, name, elapsed, retries, err>>
  /\ UNCHANGED <<bcVars, tpVars, table, call>>

\* await transcribeClient.send(StartTranscriptionJobCommand); a name that
\* is already in use is refused by the provider
TtSend(e) ==
  /\ pc[e] = "tt_send"
  /\ \/ /\ provider[name[e]] = "NONE"
        /\ provider' = [provider EXCEPT ![name[e]] = "QUEUED"]
        /\ pc' = [pc EXCEPT ![e] = Enter(e, "WaitForTranscription")]
        /\ UNCHANGED caught
     \/ /\ caught' = [caught EXCEPT ![e] = TranscribeApiError]
        /\ pc' = [pc EXCEPT ![e] = "tt_catch"]
        /\ UNCHANGED <<provider>>
  /\ UNCHANGED <<job, now, timedOut, name, elapsed, retries, err, writeFailures>>
  /\ UNCHANGED <<bcVars, tpVars, table, call>>

\* catch: updateJob({status: 'FAILED', errorMessage}), then throw
TtCatch(e) ==
  /\ pc[e] = "tt_catch"
  /\ \/ /\ job' = UpdateJob(job, TtFailedInput(caught[e]), now)
        /\ err' = [err EXCEPT ![e] = TtPrefix \o caught[e]]
        /\ UNCHANGED writeFailures
     \/ /\ err' = [err EXCEPT ![e] = UpdateJobError]
        /\ writeFailures' = [writeFailures EXCEPT ![e] = @ + 1]
        /\ UNCHANGED job
  /\ pc' = [pc EXCEPT ![e] = Enter(e, CatchTarget("TranscribeVideo"))]
  /\ caught' = [caught EXCEPT ![e] = NoValue]
  /\ UNCHANGED <<provider, now, timedOut, name, elapsed, retries>>
  /\ UNCHANGED <<bcVars, tpVars, table, call>>

\* -------------------------------------------- check-transcribe-status handler
\* case COMPLETED forgets the transcript reference
CsGenInput_NoKey == [status |-> "GENERATING"]

CsGenInput == [status |-> "GENERATING", transcriptS3Key |-> TranscriptKey]

\* case FAILED drops the provider's FailureReason from the message
CsFailedInput_NoReason(reason) == [status |-> "FAILED", errorMessage |-> CsFailedPrefix]

CsFailedInput(reason) == [status |-> "FAILED", errorMessage |-> CsFailedPrefix \o reason]

\* the catch block records the message but not the status
CsCatchInput_NoStatus(msg) == [errorMessage |-> CsPrefix \o msg]

CsCatchInput(msg) == [status |-> "FAILED", errorMessage |-> CsPrefix \o msg]

\* the TranscriptionJobStatus values a GetTranscriptionJob response can
\* carry for a job in provider state s ("undefined": the field is absent)
ResponseStatuses(s) ==
  IF s \in {"COMPLETED", "FAILED"} THEN {s} ELSE {s, "undefined", "UNMAPPED"}

\* a task output without the optional fields
NoOut == [status |-> "NONE", isComplete |-> FALSE, transcriptS3Key |-> NoValue]

\* the default branch reports the poll as complete
InProgressOutput_Complete(status) ==
  [NoOut EXCEPT !.status = IF status = "undefined" THEN "IN_PROGRESS" ELSE status,
                !.isComplete = TRUE]

\* the output of the default branch: status || 'IN_PROGRESS', isComplete false
InProgressOutput(status) ==
  [NoOut EXCEPT !.status = IF status = "undefined" THEN "IN_PROGRESS" ELSE status,
                !.isComplete = FALSE]

\* the output of case COMPLETED
CompletedOutput ==
  [status |-> "COMPLETED", isComplete |-> TRUE, transcriptS3Key |-> TranscriptKey]

\* the output of case FAILED
FailedOutput == [NoOut EXCEPT !.status = "FAILED", !.isComplete = TRUE]

InvokeCheckTranscriptionStatus(e) ==
  /\ pc[e] = "CheckTranscriptionStatus"
  /\ pc' = [pc EXCEPT ![e] = "cs_get"]
  /\ retries' = [retries EXCEPT ![e] = 0]
  /\ UNCHANGED <<job, provider, now, timedOut, name, elapsed, caught, err, writeFailures>>
  /\ UNCHANGED <<bcVars, tpVars, table, call>>

\* await transcribeClient.send(GetTranscriptionJobCommand) and the switch
CsGet(e) ==
  /\ pc[e] = "cs_get"
  /\ \/ \E m \in {TranscribeApiError, JobNotFoundError} :
          /\ caught' = [caught EXCEPT ![e] = m]
          /\ pc' = [pc EXCEPT ![e] = "cs_catch"]
     \/ \E status \in ResponseStatuses(provider[name[e]]) :
          CASE status = "COMPLETED" ->
                 \/ /\ pc' = [pc EXCEPT ![e] = "cs_update_gen"]
                    /\ UNCHANGED <<caught>>
                 \/ /\ caught' = [caught EXCEPT ![e] = UriNotFoundError]
                    /\ pc' = [pc EXCEPT ![e] = "cs_catch"]
                      [] status = "FAILED" ->
                 \E reason \in {ProviderReason, UnknownReason} :
                    /\ caught' = [caught EXCEPT ![e] = reason]
                    /\ pc' = [pc EXCEPT ![e] = "cs_update_failed"]
                      [] OTHER ->
                 /\ pc' = [pc EXCEPT ![e] =
                             Enter(e, IsTranscriptionComplete(InProgressOutput(status)))]
                 /\ UNCHANGED caught
  /\ UNCHANGED <<job, provider, now, timedOut, name, elapsed, retries, err, writeFailures>>
  /\ UNCHANGED <<bcVars, tpVars, table, call>>

\* case COMPLETED: updateJob({status: 'GENERATING', transcriptS3Key})
CsUpdateGen(e) ==
  /\ pc[e] = "cs_update_gen"
  /\ \/ /\ job' = UpdateJob(job, CsGenInput, now)
        /\ pc' = [pc EXCEPT ![e] = Enter(e, IsTranscriptionComplete(CompletedOutput))]
        /\ UNCHANGED <<caught, writeFailures>>
     \/ /\ caught' = [caught EXCEPT ![e] = UpdateJobError]
        /\ writeFailures' = [writeFailures EXCEPT ![e] = @ + 1]
        /\ pc' = [pc EXCEPT ![e] = "cs_catch"]
        /\ UNCHANGED <<job>>
  /\ UNCHANGED <<provider, now, timedOut, name, elapsed, retries, err>>
  /\ UNCHANGED <<bcVars, tpVars, table, call>>

\* case FAILED: updateJob({status: 'FAILED', errorMessage})
CsUpdateFailed(e) ==
  /\ pc[e] = "cs_update_failed"
  /\ \/ /\ job' = UpdateJob(job, CsFailedInput(caught[e]), now)
        /\ pc' = [pc EXCEPT ![e] = Enter(e, IsTranscriptionComplete(FailedOutput))]
        /\ UNCHANGED <<caught, writeFailures>>
     \/ /\ caught' = [caught EXCEPT ![e] = UpdateJobError]
        /\ writeFailures' = [writeFailures EXCEPT ![e] = @ + 1]
        /\ pc' = [pc EXCEPT ![e] = "cs_catch"]
        /\ UNCHANGED <<job>>
  /\ UNCHANGED <<provider, now, timedOut, name, elapsed, retries, err>>
  /\ UNCHANGED <<bcVars, tpVars, table, call>>

\* catch: updateJob({status: 'FAILED', errorMessage}), then throw
CsCatch(e) ==
  /\ pc[e] = "cs_catch"
  /\ \/ /\ job' = UpdateJob(job, CsCatchInput(caught[e]), now)
        /\ err' = [err EXCEPT ![e] = CsPrefix \o caught[e]]
        /\ UNCHANGED writeFailures
     \/ /\ err' = [err EXCEPT ![e] = UpdateJobError]
        /\ writeFailures' = [writeFailures EXCEPT ![e] = @ + 1]
        /\ UNCHANGED job
  /\ pc' = [pc EXCEPT ![e] = Enter(e, CatchTarget("CheckTranscriptionStatus"))]
  /\ caught' = [caught EXCEPT ![e] = NoValue]
  /\ UNCHANGED <<provider, now, timedOut, name, elapsed, retries>>
  /\ UNCHANGED <<bcVars, tpVars, table, call>>

\* ---------------------------------------------- minutes-generator handler
\* the COMPLETED write leaves out the reference to the minutes
MgDoneInput_NoKey == [status |-> "COMPLETED", videoDuration |-> ParsedDuration]

MgDoneInput ==
  [status |-> "COMPLETED", minutesS3Key |-> MinutesKey, videoDuration |-> ParsedDuration]

InvokeGenerateMinutes(e) ==
  /\ pc[e] = "GenerateMinutes"
  /\ pc' = [pc EXCEPT ![e] = "mg_update_gen"]
  /\ retries' = [retries EXCEPT ![e] = 0]
  /\ UNCHANGED <<job, provider, now, timedOut, name, elapsed, caught, err, writeFailures>>
  /\ UNCHANGED <<bcVars, tpVars, table, call>>

\* await repository.updateJobStatus(jobId, userId, 'GENERATING')
MgUpdateGen(e) ==
  /\ pc[e] = "mg_update_gen"
  /\ \/ /\ job' = UpdateJobStatus(job, "GENERATING", NoValue, now)
        /\ pc' = [pc EXCEPT ![e] = "mg_fetch"]
        /\ UNCHANGED <<caught, writeFailures>>
     \/ /\ caught' = [caught EXCEPT ![e] = UpdateJobError]
        /\ writeFailures' = [writeFailures EXCEPT ![e] = @ + 1]
        /\ pc' = [pc EXCEPT ![e] = "mg_catch"]
        /\ UNCHANGED job
  /\ UNCHANGED <<provider, now, timedOut, name, elapsed, retries, err>>
  /\ UNCHANGED <<bcVars, tpVars, table, call>>

\* transcriptParser.fetchTranscriptFromS3, then parseTranscript
MgFetch(e) ==
  /\ pc[e] = "mg_fetch"
  /\ \/ /\ pc' = [pc EXCEPT ![e] = "mg_generate"]
        /\ UNCHANGED caught
     \/ \E m \in {S3FetchError, TranscriptParseError} :
          /\ caught' = [caught EXCEPT ![e] = m]
          /\ pc' = [pc EXCEPT ![e] = "mg_catch"]
  /\ UNCHANGED <<job, provider, now, timedOut, name, elapsed, retries, err, writeFailures>>
  /\ UNCHANGED <<bcVars, tpVars, table, call>>

\* await bedrockClient.generateMinutes(jobId, parsedTranscript)
MgGenerate(e) ==
  /\ pc[e] = "mg_generate"
  /\ \/ /\ pc' = [pc EXCEPT ![e] = "mg_put"]
        /\ UNCHANGED caught
     \/ /\ caught' = [caught EXCEPT ![e] = BedrockError]
        /\ pc' = [pc EXCEPT ![e] = "mg_catch"]
  /\ UNCHANGED <<job, provider, now, timedOut, name, elapsed, retries, err, writeFailures>>
  /\ UNCHANGED <<bcVars, tpVars, table, call>>

\* PutObject of minutes.md, then PutObject of transcript.txt
MgPut(e) ==
  /\ pc[e] = "mg_put"
  /\ \/ /\ pc' = [pc EXCEPT ![e] = "mg_update_done"]
        /\ UNCHANGED caught
     \/ /\ caught' = [caught EXCEPT ![e] = S3PutError]
        /\ pc' = [pc EXCEPT ![e] = "mg_catch"]
  /\ UNCHANGED <<job, provider, now, timedOut, name, elapsed, retries, err, writeFailures>>
  /\ UNCHANGED <<bcVars, tpVars, table, call>>

\* await repository.updateJob({status: 'COMPLETED', minutesS3Key, videoDuration})
MgUpdateDone(e) ==
  /\ pc[e] = "mg_update_done"
  /\ \/ /\ job' = UpdateJob(job, MgDoneInput, now)
        /\ pc' = [pc EXCEPT ![e] = Enter(e, "Success")]
        /\ UNCHANGED <<caught, writeFailures>>
     \/ /\ caught' = [caught EXCEPT ![e] = UpdateJobError]
        /\ writeFailures' = [writeFailures EXCEPT ![e] = @ + 1]
        /\ pc' = [pc EXCEPT ![e] = "mg_catch"]
        /\ UNCHANGED <<job>>
  /\ UNCHANGED <<provider, now, timedOut, name, elapsed, retries, err>>
  /\ UNCHANGED <<bcVars, tpVars, table, call>>

\* catch: try { updateJobStatus(FAILED, message) } catch { log }; throw error
MgCatch(e) ==
  /\ pc[e] = "mg_catch"
  /\ \/ /\ job' = UpdateJobStatus(job, "FAILED", MgPrefix \o caught[e], now)
        /\ UNCHANGED writeFailures
     \/ /\ writeFailures' = [writeFailures EXCEPT ![e] = @ + 1]
        /\ UNCHANGED job
  /\ err' = [err EXCEPT ![e] = caught[e]]
  /\ pc' = [pc EXCEPT ![e] = Enter(e, CatchTarget("GenerateMinutes"))]
  /\ caught' = [caught EXCEPT ![e] = NoValue]
  /\ UNCHANGED <<provider, now, timedOut, name, elapsed, retries>>
  /\ UNCHANGED <<bcVars, tpVars, table, call>>

\* ------------------------------------------------------------- environment
\* Amazon Transcribe works on a submitted job
ProviderProgress(n) ==
  /\ \/ /\ provider[n] = "QUEUED"
        /\ provider' = [provider EXCEPT ![n] = "IN_PROGRESS"]
     \/ /\ provider[n] = "IN_PROGRESS"
        /\ \E s \in {"COMPLETED", "FAILED"} : provider' = [provider EXCEPT ![n] = s]
  /\ UNCHANGED <<job, now, pc, timedOut, name, elapsed, retries, caught, err, writeFailures>>
  /\ UNCHANGED <<bcVars, tpVars, table, call>>

\* the millisecond clock advances
Tick ==
  /\ now < MaxNow
  /\ now' = now + 1
  /\ UNCHANGED <<job, provider, pc, timedOut, name, elapsed, retries, caught, err, writeFailures>>
  /\ UNCHANGED <<bcVars, tpVars, table, call>>

Next ==
  \/ \E e \in Execs : SpGetJob(e)
  \/ \E e \in Execs : SpStartExecution(e)
  \/ \E e \in Execs : InvokeTranscribeVideo(e)
  \/ \E e \in Execs : TtUpdate(e)
  \/ \E e \in Execs : TtSend(e)
  \/ \E e \in Execs : TtCatch(e)
  \/ \E e \in Execs : WaitForTranscription(e)
  \/ \E e \in Execs : InvokeCheckTranscriptionStatus(e)
  \/ \E e \in Execs : CsGet(e)
  \/ \E e \in Execs : CsUpdateGen(e)
  \/ \E e \in Execs : CsUpdateFailed(e)
  \/ \E e \in Execs : CsCatch(e)
  \/ \E e \in Execs : InvokeGenerateMinutes(e)
  \/ \E e \in Execs : MgUpdateGen(e)
  \/ \E e \in Execs : MgFetch(e)
  \/ \E e \in Execs : MgGenerate(e)
  \/ \E e \in Execs : MgPut(e)
  \/ \E e \in Execs : MgUpdateDone(e)
  \/ \E e \in Execs : MgCatch(e)
  \/ \E e \in Execs : ServiceException(e)
  \/ \E e \in Execs : Timeout(e)
  \/ \E n \in Names : ProviderProgress(n)
  \/ Tick

Spec == Init /\ [][Next]_vars

TypeOK ==
  /\ job.status \in JobStatus
  /\ now \in 0..MaxNow
  /\ \A e \in Execs : elapsed[e] \in 0..CeilingSeconds /\ retries[e] \in 0..MaxServiceRetries

\* ------------------------------------------- BedrockClient.generateMinutes
\* a client constructed from any config of the model, about to generate
BcInit ==
  /\ config \in BedrockClientConfig
  /\ client = BedrockClient(config)
  /\ bpc = "generateMinutes"
  /\ attempt = 0
  /\ calls = 0
  /\ waits = <<>>
  /\ lastError = NoValue
  /\ response = NoValue
  /\ parsed \in ParsedTranscripts
  /\ result = NoResult

GenerateInit == OrchInit /\ BcInit /\ TpIdle /\ RepoIdle

\* generateMinutes builds the prompt and enters invokeModelWithRetry:
\* lastError = null, attempt = 1 and the first test of the loop
GenerateMinutes ==
  /\ bpc = "generateMinutes"
  /\ attempt' = 1
  /\ lastError' = NoValue
  /\ bpc' = IF 1 <= client.maxRetries THEN "invokeModel" ELSE "throw"
  /\ UNCHANGED <<parsed, config, client, calls, waits, response, result>>
  /\ UNCHANGED <<orchVars, tpVars, table, call>>

\* await this.invokeModel(prompt): one InvokeModelCommand; it returns the
\* text, or it throws and the catch keeps the error, and then either the
\* sleep follows or attempt++ ends the loop
InvokeModel ==
  /\ bpc = "invokeModel"
  /\ calls' = calls + 1
  /\ \/ \E text \in Texts :
          /\ response' = text
          /\ bpc' = "parseResponse"
          /\ UNCHANGED <<lastError, attempt>>
     \/ \E m \in InvokeErrors :
          /\ lastError' = m
          /\ IF attempt < client.maxRetries
               THEN bpc' = "sleep" /\ UNCHANGED attempt
               ELSE bpc' = "throw" /\ attempt' = attempt + 1
          /\ UNCHANGED response
  /\ UNCHANGED <<parsed, config, client, waits, result>>
  /\ UNCHANGED <<orchVars, tpVars, table, call>>

\* await this.sleep(delay); then attempt++ and the next iteration
Sleep ==
  /\ bpc = "sleep"
  /\ waits' = Append(waits, Delay(client.retryDelay, attempt))
  /\ attempt' = attempt + 1
  /\ bpc' = IF attempt + 1 <= client.maxRetries THEN "invokeModel" ELSE "throw"
  /\ UNCHANGED <<parsed, config, client, calls, lastError, response, result>>
  /\ UNCHANGED <<orchVars, tpVars, table, call>>

\* after the loop: throw new ServiceUnavailableError; generateMinutes logs
\* and rethrows it
Throw ==
  /\ bpc = "throw"
  /\ result' = ServiceUnavailableError(client.maxRetries, lastError)
  /\ bpc' = "done"
  /\ UNCHANGED <<parsed, config, client, attempt, calls, waits, lastError, response>>
  /\ UNCHANGED <<orchVars, tpVars, table, call>>

\* this.parseResponse(jobId, llmResponse, parsedTranscript); generateMinutes
\* returns the Minutes or rethrows the parse error
ParseStep ==
  /\ bpc = "parseResponse"
  /\ result' = ParseResponse(response, parsed)
  /\ bpc' = "done"
  /\ UNCHANGED <<parsed, config, client, attempt, calls, waits, lastError, response>>
  /\ UNCHANGED <<orchVars, tpVars, table, call>>

GenerateNext ==
  \/ GenerateMinutes
  \/ InvokeModel
  \/ Sleep
  \/ Throw
  \/ ParseStep

GenerateSpec == GenerateInit /\ [][GenerateNext]_vars

\* ------------------------------------------------- TranscriptParser steps
\* parseTranscript(transcribeOutput) is called with some recognizer output
TpInit ==
  /\ \E items \in ItemStreams :
       \E transcripts \in TranscriptsOf(items) :
         \E labels \in SpeakerLabels :
           results = TranscribeOutput(transcripts, items, labels)
  /\ tpc = "parseTranscript"
  /\ segments = <<>>
  /\ index = 0
  /\ returned = NoParsed
  /\ callNo = 1
  /\ previous = NoParsed

ParseInit == OrchInit /\ BcIdle /\ TpInit /\ RepoIdle

\* parseTranscript up to the call of extractSegments: the check of the
\* transcripts, and the new segment list
ParseTranscript ==
  /\ tpc = "parseTranscript"
  /\ IF Len(results.transcripts) = 0
       THEN /\ returned' = EmptyTranscriptError
            /\ tpc' = "done"
            /\ UNCHANGED segments
       ELSE /\ tpc' = "extractSegments"
            /\ segments' = NewSegments(segments)
            /\ UNCHANGED returned
  /\ index' = 0
  /\ UNCHANGED <<results, callNo, previous>>
  /\ UNCHANGED <<orchVars, bcVars, table, call>>

\* extractSegments without speaker labels: no segment when there is no
\* pronunciation item, else the whole transcript as one segment
ExtractWholeSegment ==
  /\ tpc = "extractSegments"
  /\ results.speaker_labels = NoValue
  /\ LET items == ItemsOfType(results.items, "pronunciation")
     IN segments' = IF Len(items) = 0 THEN segments
                    ELSE Append(segments, WholeSegment(results, items))
  /\ tpc' = "aggregateSpeakers"
  /\ UNCHANGED <<results, index, returned, callNo, previous>>
  /\ UNCHANGED <<orchVars, bcVars, table, call>>

\* extractSegments with speaker labels: one turn of the loop over
\* speaker_labels.segments, or its end
ExtractLabelledSegment ==
  /\ tpc = "extractSegments"
  /\ results.speaker_labels # NoValue
  /\ LET speakerSegments == results.speaker_labels[1].segments
     IN IF index < Len(speakerSegments)
          THEN /\ segments' = Append(segments,
                                     LabelledSegment(results, speakerSegments[index + 1]))
               /\ index' = index + 1
               /\ UNCHANGED tpc
          ELSE /\ tpc' = "aggregateSpeakers"
               /\ UNCHANGED <<segments, index>>
  /\ UNCHANGED <<results, returned, callNo, previous>>
  /\ UNCHANGED <<orchVars, bcVars, table, call>>

\* the rest of parseTranscript: aggregateSpeakers, calculateDuration, and the
\* ParsedTranscript is returned
ReturnParsed ==
  /\ tpc = "aggregateSpeakers"
  /\ returned' = Parsed(results, segments)
  /\ tpc' = "done"
  /\ UNCHANGED <<results, segments, index, callNo, previous>>
  /\ UNCHANGED <<orchVars, bcVars, table, call>>

\* parseTranscript is called again on the same parser with the same output
ParseAgain ==
  /\ tpc = "done"
  /\ callNo < MaxCalls
  /\ previous' = returned
  /\ returned' = NoParsed
  /\ callNo' = callNo + 1
  /\ tpc' = "parseTranscript"
  /\ UNCHANGED <<results, segments, index>>
  /\ UNCHANGED <<orchVars, bcVars, table, call>>

ParseNext ==
  \/ ParseTranscript
  \/ ExtractWholeSegment
  \/ ExtractLabelledSegment
  \/ ReturnParsed
  \/ ParseAgain

ParseSpec == ParseInit /\ [][ParseNext]_vars

\* --------------------------------------------- MeetingJobRepository steps
\* the jobs table holds an item for a key or none (status "undefined": the
\* key was never written)
RepoInit ==
  /\ table \in [JobKeys -> {NewJob, [NewJob EXCEPT !.status = "undefined"]}]
  /\ call = NoCall

UpdateInit == OrchInit /\ BcIdle /\ TpIdle /\ RepoInit

\* updateJob(input) for the key k: the UpdateCommand sets the fields of the
\* item of that key and the updated item is returned, or the command is
\* rejected and InternalServerError is thrown
UpdateJobCall(k, i) ==
  /\ call.no < MaxUpdates
  /\ \/ /\ table' = [table EXCEPT ![k] = UpdateJob(table[k], UpdateInputs[i], call.no + 1)]
        /\ call' = [no |-> call.no + 1, key |-> k, input |-> i, failed |-> FALSE]
     \/ /\ call' = [no |-> call.no + 1, key |-> k, input |-> i, failed |-> TRUE]
        /\ UNCHANGED table
  /\ UNCHANGED <<orchVars, bcVars, tpVars>>

UpdateNext == \E k \in JobKeys : \E i \in 1..Len(UpdateInputs) : UpdateJobCall(k, i)

UpdateSpec == UpdateInit /\ [][UpdateNext]_vars

\* ------------------------------------------------------------------ claims
Terminal == {"COMPLETED", "FAILED"}

\* position of a status in SUBMITTED(UPLOADED) -> TRANSCRIBING -> GENERATING -> COMPLETED
Rank(s) ==
  CASE s = "UPLOADED" -> 0
    [] s = "TRANSCRIBING" -> 1
    [] s = "GENERATING" -> 2
    [] s = "COMPLETED" -> 3
    [] OTHER -> 4

\* no handler is running and no workflow transition is pending
Quiet ==
  \A e \in Execs :
    pc[e] \notin LambdaPCs \cup TaskStates \cup {"WaitForTranscription", "sp_start"}

\* the execution was started and is over
Ended(e) == pc[e] \in EndStates \cup {"TimedOut", "Abandoned"}

\* the message names the failed job-store write
ReportsPersistence(m) == \E i \in 1..Len(m) : m[i] = UpdateJobError[1]

\* C1: every change of the persisted status moves forward in
\* UPLOADED -> TRANSCRIBING -> GENERATING -> COMPLETED or goes to FAILED; the
\* status never moves backward and never returns to the initial status.
C1_StatusMovesForward ==
  [][job'.status # job.status =>
       \/ job'.status = "FAILED"
       \/ Rank(job'.status) > Rank(job.status)]_vars

\* C2: once the persisted status is COMPLETED or FAILED no later step
\* rewrites any field of the record.
C2_TerminalRecordImmutable ==
  [][job.status \in Terminal => job' = job]_vars

\* C3: when every started execution is over, the persisted status is one of
\* the two terminal states COMPLETED and FAILED.
C3_EndsInTerminalStatus ==
  (Quiet /\ \E e \in Execs : Ended(e)) => job.status \in Terminal

\* C4: when an execution has hit the timeout and nothing is running any
\* more, the job is FAILED with a timeout-specific errorMessage.
C4_TimeoutMarksFailed ==
  (Quiet /\ \E e \in Execs : timedOut[e]) =>
     /\ job.status = "FAILED"
     /\ job.errorMessage # NoValue
     /\ job.errorMessage[1] = "WorkflowTimeout: "

\* C5: no two Lambda invocations that write the status of the job run at
\* the same time.
C5_TransitionsSequential ==
  \A e1, e2 \in Execs :
    e1 # e2 => ~(pc[e1] \in LambdaPCs /\ pc[e2] \in LambdaPCs)

\* C6: a failed status write is attempted again: after a failed updateJob
\* the handler is still at that write, so that one failed attempt never
\* ends the transition.
C6_FailedWriteRetried ==
  [][\A e \in Execs :
       writeFailures'[e] > writeFailures[e] => pc'[e] = pc[e]]_vars

\* C7: a step in which a status write failed ends with an error that
\* reports the persistence failure; no failed write is caught and dropped.
C7_WriteFailureSurfaced ==
  \A e \in Execs :
    (pc[e] \in EndStates \cup {"Abandoned"} /\ writeFailures[e] > 0)
      => ReportsPersistence(err[e])

C10_InProgressPollWritesNothing ==
  [][\A e \in Execs :
       /\ ( /\ pc[e] = "cs_get"
            /\ provider[name[e]] \in {"QUEUED", "IN_PROGRESS"}
            /\ pc'[e] \notin {pc[e], "cs_catch"} ) =>
            /\ job' = job
            /\ ~timedOut[e] => pc'[e] = "WaitForTranscription"
       /\ (pc[e] = "WaitForTranscription" /\ pc'[e] # pc[e] /\ ~timedOut'[e]) =>
            /\ pc'[e] = "CheckTranscriptionStatus"
            /\ elapsed'[e] = elapsed[e] + 30
            /\ job' = job]_vars

\* an execution is back in the wait after a poll, the job still TRANSCRIBING
C10_Witness ==
  \E e \in Execs :
    /\ pc[e] = "WaitForTranscription"
    /\ elapsed[e] >= WaitSeconds
    /\ provider[name[e]] \in {"QUEUED", "IN_PROGRESS"}
    /\ job.status = "TRANSCRIBING"

PollCallErrors == {TranscribeApiError, JobNotFoundError}

C14_OtherStatesAreInProgress ==
  [][\A e \in Execs :
       (pc[e] = "cs_get" /\ provider[name[e]] \notin {"COMPLETED", "FAILED"}) =>
          /\ \A status \in ResponseStatuses(provider[name[e]]) :
               /\ status \notin {"COMPLETED", "FAILED"}
               /\ InProgressOutput(status).isComplete = FALSE
               /\ InProgressOutput(status).status \notin {"FAILED", "undefined"}
               /\ IsTranscriptionComplete(InProgressOutput(status)) = "WaitForTranscription"
          /\ {"undefined", "UNMAPPED"} \subseteq ResponseStatuses(provider[name[e]])
          /\ pc'[e] \notin {"cs_update_gen", "cs_update_failed",
                            "GenerateMinutes", "TranscriptionFailed"}
          /\ pc'[e] \notin {pc[e], "cs_catch"} =>
               /\ job' = job
               /\ caught' = caught
               /\ pc'[e] = Enter(e, "WaitForTranscription")]_vars

\* an execution has polled a job that is neither COMPLETED nor FAILED and
\* has gone through the wait to the next poll, the job still TRANSCRIBING
C14_Witness ==
  \E e \in Execs :
    /\ pc[e] = "CheckTranscriptionStatus"
    /\ elapsed[e] = 2 * WaitSeconds
    /\ ~timedOut[e]
    /\ provider[name[e]] \notin {"COMPLETED", "FAILED"}
    /\ job.status = "TRANSCRIBING"

\* the steps of the minutes-generator handler between its two status writes,
\* in program order
MgOrder == <<"mg_update_gen", "mg_fetch", "mg_generate", "mg_put", "mg_update_done">>

\* C15: the status is written as COMPLETED only by the last write of a
\* minutes-generator run, which that run reaches only through the
\* successful fetch and parse of the transcript, the successful generation
\* and the successful store of the minutes, in that order; the write that
\* sets COMPLETED also sets minutesS3Key to the key of the stored minutes.
C15_CompletedOnlyAfterMinutesStored ==
  [][/\ (job' # job /\ job'.status = "COMPLETED") =>
          \E e \in Execs :
             /\ pc[e] = "mg_update_done"
             /\ pc'[e] = Enter(e, "Success")
             /\ job'.minutesS3Key = MinutesKey
             /\ job' = UpdateJob(job, MgDoneInput, now)
     /\ \A e \in Execs : \A i \in 2..Len(MgOrder) :
          (pc'[e] = MgOrder[i] /\ pc[e] # MgOrder[i]) =>
             /\ pc[e] = MgOrder[i - 1]
             /\ caught'[e] = NoValue
             /\ writeFailures'[e] = writeFailures[e]
     /\ \A e \in Execs :
          (pc'[e] = "Success" /\ pc[e] # "Success") =>
             /\ pc[e] = "mg_update_done"
             /\ job'.status = "COMPLETED"
             /\ job'.minutesS3Key = MinutesKey]_vars

\* a minutes-generator run has ended in Success and the record is
\* COMPLETED with the reference to the minutes
C15_Witness ==
  \E e \in Execs :
    /\ pc[e] = "Success"
    /\ job.status = "COMPLETED"
    /\ job.minutesS3Key = MinutesKey
    /\ job.transcriptS3Key = TranscriptKey

\* what can fail between the two status writes of the minutes-generator
MgFailures == {S3FetchError, TranscriptParseError, BedrockError, S3PutError}

C17_ErrorMessageOnlyWhenFailed ==
  job.errorMessage # NoValue => job.status = "FAILED"

\* the types of the BedrockClient variables
BcTypeOK ==
  /\ config \in BedrockClientConfig
  /\ client.maxRetries \in 1..(MaxConfiguredRetries + DefaultMaxRetries)
  /\ attempt \in 0..(client.maxRetries + 1)
  /\ calls \in 0..client.maxRetries
  /\ Len(waits) < client.maxRetries
  /\ result.kind \in {"none", "Minutes", "ServiceUnavailableError", "InternalServerError"}
  /\ parsed \in ParsedTranscripts

\* the maxRetries the caller configured: the value of the config, and the
\* documented default when the config holds none
ConfiguredMaxRetries ==
  IF config.maxRetries = NoValue THEN DefaultMaxRetries ELSE config.maxRetries[1]

\* C18: generateMinutes calls the model until the first success or until
\* the configured maxRetries calls have been made: it never makes more
\* calls than that; when every call has failed it has made exactly that many
\* and throws ServiceUnavailableError with that count and the last error;
\* when k calls have failed and the next has succeeded it has made exactly
\* k + 1 calls, with k below the configured maxRetries.
C18_CallsUntilSuccessOrMaxRetries ==
  /\ calls <= ConfiguredMaxRetries
  /\ result.kind = "ServiceUnavailableError" =>
       /\ calls = ConfiguredMaxRetries
       /\ result.attempts = ConfiguredMaxRetries
       /\ result.cause = lastError
  /\ response # NoValue =>
       /\ calls = Len(waits) + 1
       /\ Len(waits) < ConfiguredMaxRetries

ExpectedShape(j) ==
  /\ j.decisions.present
  /\ j.nextActions.present
  /\ \A i \in 1..Len(j.decisions.items) : j.decisions.items[i].description # NoValue
  /\ \A i \in 1..Len(j.nextActions.items) : j.nextActions.items[i].description # NoValue

\* the text is, after the fence is stripped, valid JSON of the expected shape
ValidOutput(text) ==
  /\ IsJson(JsonText(text))
  /\ ExpectedShape(Trim(JsonText(text))[1].v)

\* C20: when the text the model returned is not valid JSON of the expected
\* shape after the fence is stripped, generateMinutes ends with the
\* response-parse error, and it has not called the model again after the
\* call that returned the text.
C20_InvalidOutputFailsWithoutRetry ==
  (bpc = "done" /\ response # NoValue /\ ~ValidOutput(response)) =>
     /\ result.kind = "InternalServerError"
     /\ result.cause[1] = "ResponseParseFailed: "
     /\ calls = Len(waits) + 1

\* C21: a response whose JSON lacks decisions or nextActions, or holds an
\* element without its description, makes generateMinutes end with the
\* response-parse error; no Minutes that generateMinutes returns holds a
\* decision or an action whose description is missing.
C21_MalformedResponseFailsParsing ==
  /\ ( /\ bpc = "done"
       /\ response # NoValue
       /\ IsJson(JsonText(response))
       /\ ~ExpectedShape(Trim(JsonText(response))[1].v) ) =>
          /\ result.kind = "InternalServerError"
          /\ result.cause[1] = "ResponseParseFailed: "
  /\ result.kind = "Minutes" =>
       /\ \A i \in 1..Len(result.minutes.decisions) :
            result.minutes.decisions[i].description # NoValue
       /\ \A i \in 1..Len(result.minutes.nextActions) :
            result.minutes.nextActions[i].description # NoValue

\* two results of generateMinutes are the same error, or Minutes that
\* agree in everything but the generated ids
SameAsideFromIds(r1, r2) ==
  /\ r1.kind = r2.kind
  /\ r1.cause = r2.cause
  /\ r1.minutes.summary = r2.minutes.summary
  /\ Len(r1.minutes.decisions) = Len(r2.minutes.decisions)
  /\ Len(r1.minutes.nextActions) = Len(r2.minutes.nextActions)
  /\ \A i \in 1..Len(r1.minutes.decisions) :
       r1.minutes.decisions[i].description = r2.minutes.decisions[i].description
  /\ \A i \in 1..Len(r1.minutes.nextActions) :
       r1.minutes.nextActions[i].description = r2.minutes.nextActions[i].description
  /\ r1.minutes.transcript = r2.minutes.transcript
  /\ r1.minutes.speakers = r2.minutes.speakers

\* C22: for every JSON payload, the result of generateMinutes for the
\* response that holds the payload with no fence is, aside from the ids, the
\* result of parsing the response that wraps the same payload in a json
\* fence.
C22_FenceDoesNotChangeMinutes ==
  \A j \in Jsons :
    (bpc = "done" /\ response = Bare(j)) =>
       SameAsideFromIds(result, ParseResponse(JsonFenced(j), parsed))

\* the ids of the Minutes, decisions first
MinutesIds(minutes) ==
  [i \in 1..Len(minutes.decisions) |-> minutes.decisions[i].id]
    \o [i \in 1..Len(minutes.nextActions) |-> minutes.nextActions[i].id]

\* the id fields the model output carries
SuppliedIds(j) ==
  {j.decisions.items[i].id : i \in 1..Len(j.decisions.items)}
    \cup {j.nextActions.items[i].id : i \in 1..Len(j.nextActions.items)}

\* C23: the ids of the decisions and next actions of every Minutes that
\* generateMinutes returns are non-empty, differ pairwise, and none of them
\* is an id field of the model output.
C23_IdsAreFreshAndUnique ==
  (bpc = "done" /\ result.kind = "Minutes") =>
    LET ids == MinutesIds(result.minutes)
        j == Trim(JsonText(response))[1].v
    IN /\ \A i \in 1..Len(ids) : ids[i] # NoValue /\ ids[i] # <<"">>
       /\ \A i, k \in 1..Len(ids) : i # k => ids[i] # ids[k]
       /\ \A i \in 1..Len(ids) : ids[i] \notin SuppliedIds(j)

\* Minutes were returned for a model output whose elements carry their own,
\* repeated and empty, ids
C23_Witness ==
  /\ bpc = "done"
  /\ result.kind = "Minutes"
  /\ Trim(JsonText(response))[1].v = OwnIdsJson
  /\ Len(MinutesIds(result.minutes)) = 3

\* C24: the speakers of every Minutes that generateMinutes returns hold one
\* entry for each distinct speakerId of the segments of the ParsedTranscript,
\* and the count of the entry is the number of segments with that speakerId.
C24_SpeakersCountSegments ==
  (bpc = "done" /\ result.kind = "Minutes") =>
    LET speakers == result.minutes.speakers
        given == parsed.segments
    IN /\ {speakers[i].id : i \in 1..Len(speakers)}
            = {given[i].speakerId : i \in 1..Len(given)}
       /\ \A i, k \in 1..Len(speakers) : i # k => speakers[i].id # speakers[k].id
       /\ \A i \in 1..Len(speakers) :
            speakers[i].segments
              = Cardinality({k \in 1..Len(given) : given[k].speakerId = speakers[i].id})

TpTypeOK ==
  /\ results.items \in ItemStreams
  /\ results.transcripts \in TranscriptsOf(results.items)
  /\ results.speaker_labels \in SpeakerLabels
  /\ tpc \in {"parseTranscript", "extractSegments", "aggregateSpeakers", "done"}
  /\ callNo \in 1..MaxCalls
  /\ returned.kind \in {"none", "ParsedTranscript", "ValidationError"}
  /\ Len(segments) <= MaxSpeakerSegments

\* C25: a call of parseTranscript whose output holds no transcripts, or no
\* items, ends with the empty-transcript error and returns no ParsedTranscript.
C25_EmptyInputFails ==
  (tpc = "done" /\ (Len(results.transcripts) = 0 \/ Len(results.items) = 0)) =>
    returned = EmptyTranscriptError

\* C26: the duration of every ParsedTranscript that parseTranscript returns
\* is at least the endTime of each of its segments.
C26_DurationCoversSegments ==
  (tpc = "done" /\ returned.kind = "ParsedTranscript") =>
    \A i \in 1..Len(returned.segments) :
      returned.duration >= returned.segments[i].endTime

\* C27: the speakerCount of every ParsedTranscript that parseTranscript
\* returns is the number of distinct speakerId values of its segments.
C27_SpeakerCountIsDistinctSpeakers ==
  (tpc = "done" /\ returned.kind = "ParsedTranscript") =>
    returned.speakerCount
      = Cardinality({returned.segments[i].speakerId : i \in 1..Len(returned.segments)})

\* a ParsedTranscript was returned in which both segments are of one speaker
C27_Witness ==
  /\ tpc = "done"
  /\ returned.kind = "ParsedTranscript"
  /\ Len(returned.segments) = 2
  /\ returned.segments[1].speakerId = returned.segments[2].speakerId
  /\ returned.speakerCount = 1

\* the text the claims describe for the words of a token stream that start
\* in [lo, hi]: the words in stream order with one space between them, and
\* each punctuation token that follows such a word put directly behind it;
\* attach tells whether the last word seen was one of them
RECURSIVE JoinedUpTo(_, _, _, _)
JoinedUpTo(items, lo, hi, n) ==
  IF n = 0 THEN [text |-> <<>>, attach |-> FALSE]
  ELSE LET before == JoinedUpTo(items, lo, hi, n - 1)
           item == items[n]
           content == item.alternatives[1].content
       IN IF item.type = "pronunciation"
            THEN IF /\ item.start_time # NoValue
                    /\ ParseFloat(OrZero(item.start_time)) >= lo
                    /\ ParseFloat(OrZero(item.start_time)) <= hi
                   THEN [text |-> IF before.text = <<>> THEN <<content>>
                                  ELSE before.text \o <<" ", content>>,
                         attach |-> TRUE]
                   ELSE [before EXCEPT !.attach = FALSE]
          ELSE IF before.attach THEN [before EXCEPT !.text = @ \o <<content>>]
          ELSE before

JoinedText(items, lo, hi) == JoinedUpTo(items, lo, hi, Len(items)).text

\* a bound above the start of every word of the stream
StreamEnd(items) == 10 * Len(items)

WordsIn(items, lo, hi) ==
  SelectSeq(items,
            LAMBDA item :
              /\ item.type = "pronunciation"
              /\ item.start_time # NoValue
              /\ ParseFloat(OrZero(item.start_time)) >= lo
              /\ ParseFloat(OrZero(item.start_time)) <= hi)

\* C29: for an output with speaker labels, the text of each returned segment
\* is the words of the stream that start in [startTime, endTime] of the
\* segment, in stream order with one space between them, each punctuation
\* token that follows such a word directly behind it and no space at the end;
\* its confidence is the mean confidence of those words, 0 when there is none.
C29_SegmentTextFromWordsInRange ==
  (tpc = "done" /\ returned.kind = "ParsedTranscript" /\ results.speaker_labels # NoValue) =>
    \A i \in 1..Len(returned.segments) :
      LET segment == returned.segments[i]
      IN /\ segment.text = JoinedText(results.items, segment.startTime, segment.endTime)
         /\ segment.confidence
              = CalculateAverageConfidence(
                  WordsIn(results.items, segment.startTime, segment.endTime))

Started(e) == pc[e] \notin {"idle", "sp_start", "Rejected", "StartFailed"}

\* C31: the job names generated for two attempts to submit the job are
\* different, also when the attempts belong to two executions of one job.
C31_JobNamesDistinct ==
  \A e1, e2 \in Execs :
    (e1 # e2 /\ name[e1] # NoValue /\ name[e2] # NoValue) => name[e1] # name[e2]

\* C32: the record is TRANSCRIBING with a job name only when the provider
\* has accepted the submission of a job of that name.
C32_TranscribingOnlyAfterAccepted ==
  job.status = "TRANSCRIBING" =>
    /\ job.transcribeJobName # NoValue
    /\ provider[job.transcribeJobName] # "NONE"

\* C33: an execution that is in the Success state has left the record
\* COMPLETED, and an execution that is in one of the two Fail states has left
\* it FAILED.
C33_OutcomeAgreesWithStatus ==
  \A e \in Execs :
    /\ pc[e] = "Success" => job.status = "COMPLETED"
    /\ pc[e] \in {"TranscriptionFailed", "MinutesGenerationFailed"} => job.status = "FAILED"

\* C34: at most one execution is started for the job.
C34_AtMostOneExecution ==
  Cardinality({e \in Execs : Started(e)}) <= 1

\* C35: at most one transcription job is submitted to the provider for the
\* job.
C35_AtMostOneProviderJob ==
  Cardinality({n \in Names : provider[n] # "NONE"}) <= 1

\* C36: the location from which the minutes-generator fetches the transcript
\* is the output location given to the provider at the submission, and its
\* key is the transcriptS3Key of the record.
C36_FetchesWhatProviderWrote ==
  \A e \in Execs :
    pc[e] = "mg_fetch" =>
      /\ FetchLocation(CompletedOutput.transcriptS3Key) = OutputLocation
      /\ CompletedOutput.transcriptS3Key = job.transcriptS3Key

\* C37: whenever the status of the record is FAILED, its errorMessage is
\* set and is not the empty text.
C37_FailedHasErrorMessage ==
  job.status = "FAILED" =>
    /\ job.errorMessage # NoValue
    /\ \E i \in 1..Len(job.errorMessage) : job.errorMessage[i] # ""

\* an execution has ended in a Fail state after its handler marked the job
\* FAILED
C37_Witness ==
  /\ job.status = "FAILED"
  /\ job.errorMessage # NoValue
  /\ \E e \in Execs :
       /\ pc[e] \in {"TranscriptionFailed", "MinutesGenerationFailed"}
       /\ err[e] # NoValue
       /\ writeFailures[e] = 0

\* C38: a TRANSCRIBING record holds a transcribeJobName, a GENERATING record
\* a transcriptS3Key, and a COMPLETED record a minutesS3Key.
C38_ReferencesPresent ==
  /\ job.status = "TRANSCRIBING" => job.transcribeJobName # NoValue
  /\ job.status = "GENERATING" => job.transcriptS3Key # NoValue
  /\ job.status = "COMPLETED" => job.minutesS3Key # NoValue

\* the record is COMPLETED and holds the references of all three stages
C38_Witness ==
  /\ job.status = "COMPLETED"
  /\ job.transcribeJobName \in Names
  /\ job.transcriptS3Key = TranscriptKey
  /\ job.minutesS3Key = MinutesKey

\* C39: a call of updateJob leaves the item of every other key as it was; in
\* the item of its own key it leaves every field but updatedAt that its input
\* does not define as it was, and when the command is accepted every field
\* that the input defines holds the value of the input.
C39_PartialUpdate ==
  [][call' # call =>
       LET k == call'.key
           input == UpdateInputs[call'.input]
       IN /\ \A other \in JobKeys \ {k} : table'[other] = table[other]
          /\ \A f \in DOMAIN table[k] \ {"updatedAt"} :
               IF Defined(input, f)
                 THEN call'.failed \/ table'[k][f] = input[f]
                 ELSE table'[k][f] = table[k][f]
          /\ call'.failed => table' = table]_vars

\* two calls were accepted for one key, and its item holds the fields of
\* both, while the item of the other key is as it was created
C39_Witness ==
  /\ call.no = 2
  /\ ~call.failed
  /\ \E k \in JobKeys :
       /\ table[k].status = "FAILED"
       /\ table[k].transcribeJobName # NoValue
       /\ table[k].errorMessage # NoValue
       /\ \A other \in JobKeys \ {k} : table[other] = NewJob

====
